---- MODULE Spec2Model ----
(***************************************************************************)
(* Model of the analysis route of the NSE Stealth Accumulation Scanner     *)
(* (src/unnamed/part_000, function POST): the session locator loop, the    *)
(* session fetcher, the money-flow aggregator and the ranker.              *)
(*                                                                         *)
(* Representation choices:                                                 *)
(*  - a date is an integer day number; its weekday is the number mod 7     *)
(*    (0 = Sunday ... 6 = Saturday, as dayjs's day()).                     *)
(*  - a CSV field is a sequence of one-character strings, or Undefined for *)
(*    a column the file does not have; safeNumber parses it.               *)
(*  - a JavaScript Map is a sequence of entries in insertion order.        *)
(*  - sumMFVolume, a sum of fractions, is kept as an integer number of     *)
(*    1/MFScale units; cmf and priceChange5dPercent are kept as fractions  *)
(*    [num, den]. Floating point rounding is not modelled.                 *)
(***************************************************************************)
EXTENDS Integers, Sequences, FiniteSets, TLC

VARIABLES today, cursor, dailyMaps, lastOutcome, pc, agg, i, response

vars == <<today, cursor, dailyMaps, lastOutcome, pc, agg, i, response>>

(***************************************************************************)
(* Bounds of the model                                                     *)
(***************************************************************************)
\* closing prices of an ordinary session are drawn from 1..MaxClose
MaxClose == 2

(***************************************************************************)
(* Program constants                                                       *)
(***************************************************************************)
neededDays == 5
maxLookback == 12
TopN == 10
MinCoverage == 3
\* sumMFVolume is counted in units of 1/MFScale
MFScale == 2

Symbols == {"A", "B"}

Undefined == <<"undefined">>

(***************************************************************************)
(* safeNumber: Number(String(v).replace(/,/g, '')), 0 when not finite      *)
(***************************************************************************)
Digits == {"0", "1", "2", "3", "4", "5", "6", "7", "8", "9"}

DigitVal(c) ==
  CASE c = "0" -> 0 [] c = "1" -> 1 [] c = "2" -> 2 [] c = "3" -> 3
    [] c = "4" -> 4 [] c = "5" -> 5 [] c = "6" -> 6 [] c = "7" -> 7
    [] c = "8" -> 8 [] c = "9" -> 9

StripCommas(s) == SelectSeq(s, LAMBDA c : c # ",")

RECURSIVE DigitsVal(_)
DigitsVal(s) ==
  IF s = <<>> THEN 0
  ELSE 10 * DigitsVal(SubSeq(s, 1, Len(s) - 1)) + DigitVal(s[Len(s)])

AllDigits(s) == \A k \in 1..Len(s) : s[k] \in Digits

\* Number(str) for the strings of the model: "" is 0, an optionally signed
\* run of digits is its value, anything else is NaN (finite = FALSE).
Number(s) ==
  IF s = <<>> THEN [finite |-> TRUE, val |-> 0]
  ELSE IF AllDigits(s) THEN [finite |-> TRUE, val |-> DigitsVal(s)]
  ELSE IF s[1] = "-" /\ Len(s) > 1 /\ AllDigits(Tail(s))
         THEN [finite |-> TRUE, val |-> 0 - DigitsVal(Tail(s))]
  ELSE [finite |-> FALSE, val |-> 0]

safeNumber(v) ==
  IF v = Undefined THEN 0
  ELSE LET n == Number(StripCommas(v))
       IN IF n.finite THEN n.val ELSE 0

(***************************************************************************)
(* The provider's files: the parsed records of one day's bhavcopy          *)
(***************************************************************************)
Field(n) == <<CHOOSE c \in Digits : DigitVal(c) = n>>

Rec(sym, series, high, low, close, qty, val) ==
  [SYMBOL |-> sym, SERIES |-> series, HIGH |-> high, LOW |-> low,
   CLOSE |-> close, TOTTRDQTY |-> qty, TOTTRDVAL |-> val]

\* an ordinary session: both symbols traded, A closing at c
OrdinaryFile(c) ==
  << Rec("A", "EQ", <<"3">>, <<"1">>, Field(c), <<"1">>, <<"2">>),
     Rec("B", "EQ", <<"3">>, <<"1">>, <<"3">>, <<"2">>, <<"1", ",", "1">>) >>

\* A's close is not a number and its traded value is negative; B is listed
\* in another series
OddCloseFile ==
  << Rec("A", "EQ", <<"3">>, <<"1">>, <<"-">>, <<"1">>, <<"-", "1">>),
     Rec("B", "BE", <<"3">>, <<"1">>, <<"2">>, <<"1">>, <<"1">>) >>

\* A is listed twice, the later row with no volume; B is not listed
NoVolumeFile ==
  << Rec("A", "EQ", <<"3">>, <<"1">>, <<"2">>, <<"1">>, <<"2">>),
     Rec("A", "EQ", <<"2">>, <<"2">>, <<"2">>, <<"0">>, Undefined) >>

\* a file with no row of the EQ series
NoEquityFile ==
  << Rec("B", "BE", <<"3">>, <<"1">>, <<"2">>, <<"1">>, <<"1">>) >>

Files ==
  {OrdinaryFile(c) : c \in 1..MaxClose} \cup {OddCloseFile, NoVolumeFile, NoEquityFile}

(***************************************************************************)
(* Map<string, Row> as a sequence of rows keyed by SYMBOL                  *)
(***************************************************************************)
MapHas(m, sym) == \E k \in 1..Len(m) : m[k].SYMBOL = sym

MapSet(m, r) ==
  IF MapHas(m, r.SYMBOL)
    THEN [k \in 1..Len(m) |-> IF m[k].SYMBOL = r.SYMBOL THEN r ELSE m[k]]
    ELSE Append(m, r)

RECURSIVE BuildMap(_, _)
BuildMap(records, m) ==
  IF records = <<>> THEN m
  ELSE LET r == Head(records)
       IN BuildMap(Tail(records), IF r.SERIES # "EQ" THEN m ELSE MapSet(m, r))

Reverse(s) == [k \in 1..Len(s) |-> s[Len(s) + 1 - k]]

(***************************************************************************)
(* Session locator                                                         *)
(***************************************************************************)
Day(d) == ((d % 7) + 7) % 7

IsWeekend(d) == Day(d) \in {6, 0}

Diff(now, d) == now - d

\* variant: the ceiling is dropped
LoopGuard_NoCeiling == Len(dailyMaps) < neededDays

\* variant: only non-weekend dates count towards the ceiling
LoopGuard_WeekdaysOnly ==
  /\ Len(dailyMaps) < neededDays
  /\ Len(dailyMaps) + Cardinality({d \in cursor..(today - 1) : ~IsWeekend(d)})
       <= neededDays + maxLookback

LoopGuard ==
  /\ Len(dailyMaps) < neededDays
  /\ Len(dailyMaps) + Diff(today, cursor) <= neededDays + maxLookback

ErrorResponse(kind, status) ==
  [kind |-> kind, status |-> status, daysAnalyzed |-> 0, topStocks |-> <<>>]

NoResponse == [kind |-> "none", status |-> 0, daysAnalyzed |-> 0, topStocks |-> <<>>]

Init ==
  /\ today \in 0..6
  /\ cursor = today
  /\ dailyMaps = <<>>
  /\ lastOutcome = "none"
  /\ pc = "locate"
  /\ agg = <<>>
  /\ i = 0
  /\ response = NoResponse

\* variant: the exception leaves the loop and reaches the catch of the route
InnerCatch_Rethrow ==
  /\ pc' = "done"
  /\ response' = ErrorResponse("unexpected", 500)
  /\ UNCHANGED dailyMaps

\* what the catch of the loop body does with an exception: nothing
InnerCatch ==
  /\ pc' = "locate"
  /\ UNCHANGED <<dailyMaps, response>>

SkipWeekend ==
  /\ pc = "locate" /\ LoopGuard
  /\ cursor' = cursor - 1
  /\ IsWeekend(cursor')
  /\ lastOutcome' = "weekend"
  /\ UNCHANGED <<today, dailyMaps, pc, agg, i, response>>

\* fetch rejects, JSZip cannot load the buffer or finds no member, or parse
\* throws: the exception is caught inside the loop
FetchThrows ==
  /\ pc = "locate" /\ LoopGuard
  /\ cursor' = cursor - 1
  /\ ~IsWeekend(cursor')
  /\ \E o \in {"networkError", "emptyZip", "badCsv"} : lastOutcome' = o
  /\ InnerCatch
  /\ UNCHANGED <<today, agg, i>>

\* the response is not ok: fetchZipCsvBuffer returns null
FetchNotOk ==
  /\ pc = "locate" /\ LoopGuard
  /\ cursor' = cursor - 1
  /\ ~IsWeekend(cursor')
  /\ lastOutcome' = "notOk"
  /\ UNCHANGED <<today, dailyMaps, pc, agg, i, response>>

\* variant: the map is pushed whatever its size
PushIfAny_Always(maps, map) == Append(maps, map)

PushIfAny(maps, map) == IF Len(map) > 0 THEN Append(maps, map) ELSE maps

FetchParsed ==
  /\ pc = "locate" /\ LoopGuard
  /\ cursor' = cursor - 1
  /\ ~IsWeekend(cursor')
  /\ \E records \in Files :
       LET map == BuildMap(records, <<>>)
       IN /\ dailyMaps' = PushIfAny(dailyMaps, map)
          /\ lastOutcome' = IF Len(map) > 0 THEN "session" ELSE "noEquity"
  /\ UNCHANGED <<today, pc, agg, i, response>>

\* variant: fewer sessions than asked for count as exhaustion
Exhausted_Partial(maps) == Len(maps) < neededDays

\* the loop condition is false: the exhaustion check of the route
Exhausted(maps) == Len(maps) = 0

LoopExit ==
  /\ pc = "locate" /\ ~LoopGuard
  /\ lastOutcome' = "none"
  /\ IF Exhausted(dailyMaps)
       THEN /\ response' = ErrorResponse("noSessions", 502)
            /\ pc' = "done"
       ELSE /\ response' = response
            /\ pc' = "fold"
  /\ agg' = <<>>
  /\ i' = 0
  /\ UNCHANGED <<today, cursor, dailyMaps>>

(***************************************************************************)
(* Money-flow aggregator                                                   *)
(***************************************************************************)
\* variant: the sessions are folded in the order they were fetched
chronological_Unreversed == dailyMaps

chronological == Reverse(dailyMaps)

\* a / b for b # 0, where b divides a
Quot(a, b) == IF b > 0 THEN a \div b ELSE (0 - a) \div (0 - b)

\* variant: the volume is not checked
RowPasses_NoVolumeCheck(volume, high, low) == ~(high <= 0 \/ low <= 0)

RowPasses(volume, high, low) == ~(volume <= 0 \/ high <= 0 \/ low <= 0)

\* mfm * volume in units of 1/MFScale
MoneyFlowVolume(high, low, close, volume) ==
  LET range == high - low
  IN IF range = 0 THEN 0
     ELSE Quot(MFScale * ((close - low) - (high - close)) * volume, range)

NewAggregated(symbol) ==
  [symbol |-> symbol, sumVolume |-> 0, sumTradedValue |-> 0, sumMFVolume |-> 0,
   firstClose |-> <<>>, lastClose |-> <<>>, days |-> 0]

AggHas(a, symbol) == \E k \in 1..Len(a) : a[k].symbol = symbol

AggGet(a, symbol) == a[CHOOSE k \in 1..Len(a) : a[k].symbol = symbol]

AggSet(a, e) ==
  IF AggHas(a, e.symbol)
    THEN [k \in 1..Len(a) |-> IF a[k].symbol = e.symbol THEN e ELSE a[k]]
    ELSE Append(a, e)

FoldRow(a, r) ==
  LET high == safeNumber(r.HIGH)
      low == safeNumber(r.LOW)
      close == safeNumber(r.CLOSE)
      volume == safeNumber(r.TOTTRDQTY)
      tradedValue == safeNumber(r.TOTTRDVAL)
  IN IF ~RowPasses(volume, high, low) THEN a
     ELSE LET old == IF AggHas(a, r.SYMBOL) THEN AggGet(a, r.SYMBOL)
                     ELSE NewAggregated(r.SYMBOL)
              new == [old EXCEPT
                        !.sumVolume = @ + volume,
                        !.sumTradedValue = @ + tradedValue,
                        !.sumMFVolume = @ + MoneyFlowVolume(high, low, close, volume),
                        !.days = @ + 1,
                        !.firstClose = IF @ = <<>> THEN <<close>> ELSE @,
                        !.lastClose = <<close>>]
          IN AggSet(a, new)

RECURSIVE FoldDay(_, _)
FoldDay(a, dayMap) ==
  IF dayMap = <<>> THEN a
  ELSE FoldDay(FoldRow(a, Head(dayMap)), Tail(dayMap))

FoldSession ==
  /\ pc = "fold"
  /\ i < Len(chronological)
  /\ agg' = FoldDay(agg, chronological[i + 1])
  /\ i' = i + 1
  /\ UNCHANGED <<today, cursor, dailyMaps, lastOutcome, pc, response>>

(***************************************************************************)
(* Ranker                                                                  *)
(***************************************************************************)
Max(a, b) == IF a >= b THEN a ELSE b
Min(a, b) == IF a <= b THEN a ELSE b

CoverageFloor(sessions) == Max(MinCoverage, Min(neededDays, sessions))

\* variant: the floor alone, whatever the number of sessions
Qualifies_FloorOnly(a, sessions) == a.days >= MinCoverage

Qualifies(a, sessions) == a.days >= CoverageFloor(sessions)

Zero == [num |-> 0, den |-> 1]

\* sumMFVolume / sumVolume as a fraction
Cmf(a) ==
  IF a.sumVolume = 0 THEN Zero
  ELSE [num |-> a.sumMFVolume, den |-> MFScale * a.sumVolume]

\* a number is truthy unless it is undefined or 0 (NaN does not occur)
Truthy(opt) == opt # <<>> /\ opt[1] # 0

PriceChange(a) ==
  IF Truthy(a.firstClose) /\ Truthy(a.lastClose) /\ a.firstClose[1] > 0
    THEN [num |-> (a.lastClose[1] - a.firstClose[1]) * 100, den |-> a.firstClose[1]]
    ELSE Zero

Result(a) ==
  [symbol |-> a.symbol, cmf |-> Cmf(a), totalTradedValue |-> a.sumTradedValue,
   totalVolume |-> a.sumVolume, daysCount |-> a.days,
   priceChange5dPercent |-> PriceChange(a)]

\* round(1000 * log10(n)) for n in 1..64
Log10Table ==
  << 0, 301, 477, 602, 699, 778, 845, 903,
     954, 1000, 1041, 1079, 1114, 1146, 1176, 1204,
     1230, 1255, 1279, 1301, 1322, 1342, 1362, 1380,
     1398, 1415, 1431, 1447, 1462, 1477, 1491, 1505,
     1519, 1531, 1544, 1556, 1568, 1580, 1591, 1602,
     1613, 1623, 1633, 1643, 1653, 1663, 1672, 1681,
     1690, 1699, 1708, 1716, 1724, 1732, 1740, 1748,
     1756, 1763, 1771, 1778, 1785, 1792, 1799, 1806 >>

Sign(n) == IF n > 0 THEN 1 ELSE IF n < 0 THEN 0 - 1 ELSE 0

\* cmf * (1 + 0.15 * log10(1 + totalTradedValue)): a fraction when finite;
\* log10 of 0 is -Infinity and of a negative number NaN
Score(x) ==
  LET arg == 1 + x.totalTradedValue
  IN IF arg < 0 THEN [kind |-> "nan", num |-> 0, den |-> 1]
     ELSE IF arg = 0
       THEN IF x.cmf.num = 0 THEN [kind |-> "nan", num |-> 0, den |-> 1]
            ELSE [kind |-> "inf", num |-> 0 - Sign(x.cmf.num), den |-> 1]
     ELSE [kind |-> "fin",
           num |-> x.cmf.num * (1000000 + 150 * Log10Table[arg]),
           den |-> x.cmf.den]

\* the sign of scoreY - scoreX; NaN counts as 0 for the sort
Compare(x, y) ==
  LET sx == Score(x)
      sy == Score(y)
  IN IF sx.kind = "nan" \/ sy.kind = "nan" THEN 0
     ELSE IF sx.kind = "inf" /\ sy.kind = "inf"
       THEN IF sx.num = sy.num THEN 0 ELSE Sign(sy.num)
     ELSE IF sy.kind = "inf" THEN Sign(sy.num)
     ELSE IF sx.kind = "inf" THEN 0 - Sign(sx.num)
     ELSE Sign(sy.num * sx.den - sx.num * sy.den)

\* stable insertion of x into the sorted sequence s
RECURSIVE InsertSorted(_, _)
InsertSorted(s, x) ==
  IF s = <<>> THEN <<x>>
  ELSE IF Compare(s[Len(s)], x) > 0
    THEN Append(InsertSorted(SubSeq(s, 1, Len(s) - 1), x), s[Len(s)])
    ELSE Append(s, x)

RECURSIVE SortByScore(_)
SortByScore(s) ==
  IF s = <<>> THEN <<>>
  ELSE InsertSorted(SortByScore(SubSeq(s, 1, Len(s) - 1)), s[Len(s)])

Slice(s, n) == SubSeq(s, 1, Min(n, Len(s)))

RECURSIVE MapResult(_)
MapResult(s) == IF s = <<>> THEN <<>> ELSE <<Result(Head(s))>> \o MapResult(Tail(s))

Results(a, sessions) ==
  MapResult(SelectSeq(a, LAMBDA e : Qualifies(e, sessions)))

TopStocks(a, sessions) == Slice(SortByScore(Results(a, sessions)), TopN)

Rank ==
  /\ pc = "fold"
  /\ i = Len(chronological)
  /\ response' = [kind |-> "ok", status |-> 200,
                  daysAnalyzed |-> Len(dailyMaps),
                  topStocks |-> TopStocks(agg, Len(dailyMaps))]
  /\ pc' = "done"
  /\ UNCHANGED <<today, cursor, dailyMaps, lastOutcome, agg, i>>

Next ==
  \/ SkipWeekend
  \/ FetchThrows
  \/ FetchNotOk
  \/ FetchParsed
  \/ LoopExit
  \/ FoldSession
  \/ Rank

Spec == Init /\ [][Next]_vars

(***************************************************************************)
(* Definitions used to state the properties                                *)
(***************************************************************************)
Sessions == Len(dailyMaps)

Walked == Diff(today, cursor)

Ceiling == neededDays + maxLookback

\* the dates the loop has examined so far
Examined == cursor..(today - 1)

NonWeekendWalked == Cardinality({d \in Examined : ~IsWeekend(d)})

FetchFailures == {"networkError", "notOk", "emptyZip", "badCsv", "noEquity"}

\* the row of sym in a session map passes the row filter, so it is folded
RowFolded(map, sym) ==
  \E k \in 1..Len(map) :
    /\ map[k].SYMBOL = sym
    /\ safeNumber(map[k].TOTTRDQTY) > 0
    /\ safeNumber(map[k].HIGH) > 0
    /\ safeNumber(map[k].LOW) > 0

RowOf(map, sym) == map[CHOOSE k \in 1..Len(map) : map[k].SYMBOL = sym]

ContributingSessions ==
  Cardinality({k \in 1..Sessions : \E sym \in Symbols : RowFolded(dailyMaps[k], sym)})

TopSymbols == {response.topStocks[k].symbol : k \in 1..Len(response.topStocks)}

DaysOf(a, sym) == IF AggHas(a, sym) THEN AggGet(a, sym).days ELSE 0
VolumeOf(a, sym) == IF AggHas(a, sym) THEN AggGet(a, sym).sumVolume ELSE 0
TradedValueOf(a, sym) == IF AggHas(a, sym) THEN AggGet(a, sym).sumTradedValue ELSE 0

Abs(n) == IF n < 0 THEN 0 - n ELSE n

(***************************************************************************)
(* C1: the route answers with the 'no sessions' error exactly when the     *)
(* locator loop ended with dailyMaps empty; every other finished run is a  *)
(* success, and a success never reports daysAnalyzed = 0.                  *)
(***************************************************************************)
C1_ErrorIffNoSessions ==
  /\ pc = "done" => response.kind \in {"noSessions", "ok"}
  /\ pc = "done" => (response.kind = "noSessions" <=> Sessions = 0)
  /\ response.kind = "noSessions" => response.status = 502
  /\ response.kind = "ok" => response.daysAnalyzed >= 1

C1_Witness ==
  /\ pc = "done"
  /\ response.kind = "noSessions"
  /\ Walked = Ceiling + 1

(***************************************************************************)
(* C2 as claimed: weekend dates do not consume the lookback budget, so a   *)
(* locator that gives up short of neededDays sessions has spent the whole  *)
(* budget on non-weekend dates.                                            *)
(***************************************************************************)
C2_WeekendsFree ==
  (pc # "locate" /\ Sessions < neededDays) => Sessions + NonWeekendWalked > Ceiling

(***************************************************************************)
(* C2 amended: a weekend date is skipped without a fetch, but it counts    *)
(* against the budget, which is measured in calendar days walked back:     *)
(* the locator gives up when sessions + calendar days walked exceeds 17,   *)
(* so with every fetch failing it walks 18 days and attempts between 12    *)
(* and 14 non-weekend dates, depending on the weekends in that range.      *)
(***************************************************************************)
C2_WeekendsCount ==
  /\ lastOutcome = "weekend" => IsWeekend(cursor)
  /\ lastOutcome \in FetchFailures \cup {"session"} => ~IsWeekend(cursor)
  /\ (pc # "locate" /\ Sessions < neededDays) => Sessions + Walked > Ceiling
  /\ (pc # "locate" /\ Sessions = 0) =>
        /\ Walked = Ceiling + 1
        /\ NonWeekendWalked \in 12..14
        /\ NonWeekendWalked < Ceiling + 1

C2_Witness ==
  /\ pc = "done"
  /\ Sessions = 0
  /\ NonWeekendWalked = 12

(***************************************************************************)
(* C3 as claimed: on success daysAnalyzed is the number of sessions that   *)
(* contributed at least one folded row, and is at least 1.                 *)
(***************************************************************************)
C3_CountsContributing ==
  response.kind = "ok" =>
    /\ response.daysAnalyzed = ContributingSessions
    /\ response.daysAnalyzed >= 1

(***************************************************************************)
(* C3 amended: on success daysAnalyzed is the number of sessions the       *)
(* locator collected, each holding at least one EQ row; it is at least 1   *)
(* and at least the number of sessions that contributed a folded row.      *)
(***************************************************************************)
C3_CountsCollected ==
  /\ \A k \in 1..Sessions : Len(dailyMaps[k]) > 0
  /\ response.kind = "ok" =>
       /\ response.daysAnalyzed = Sessions
       /\ response.daysAnalyzed >= 1
       /\ response.daysAnalyzed >= ContributingSessions

C3_Witness ==
  /\ response.kind = "ok"
  /\ response.daysAnalyzed > ContributingSessions
  /\ ContributingSessions >= 1

(***************************************************************************)
(* C4: in a success response no symbol whose days count is below           *)
(* max(3, min(5, daysAnalyzed)) appears in topStocks.                      *)
(***************************************************************************)
C4_CoverageFilter ==
  response.kind = "ok" =>
    \A sym \in Symbols :
      LET n == response.daysAnalyzed
          m == IF n < 5 THEN n ELSE 5
          floor == IF m > 3 THEN m ELSE 3
      IN DaysOf(agg, sym) < floor => sym \notin TopSymbols

C4_Witness ==
  /\ response.kind = "ok"
  /\ response.daysAnalyzed = 5
  /\ DaysOf(agg, "B") = 2
  /\ "B" \notin TopSymbols
  /\ "A" \in TopSymbols

(***************************************************************************)
(* C5: for every symbol, after every fold, |sumMFVolume| <= sumVolume      *)
(* whenever sumVolume > 0, so that cmf lies in [-1, 1].                    *)
(***************************************************************************)
C5_CmfBounded ==
  \A k \in 1..Len(agg) :
    agg[k].sumVolume > 0 => Abs(agg[k].sumMFVolume) <= MFScale * agg[k].sumVolume

(***************************************************************************)
(* C6: sessions are fetched newest first (the cursor moves one day back in *)
(* every iteration and a fetched session is appended) and folded oldest    *)
(* first, so each symbol's firstClose is the close of the oldest folded    *)
(* session holding a folded row of it and lastClose that of the newest.    *)
(***************************************************************************)
FoldedIndexes(sym) ==
  {k \in (Sessions - i + 1)..Sessions : RowFolded(dailyMaps[k], sym)}

OldestIndex(S) == CHOOSE k \in S : \A j \in S : j <= k
NewestIndex(S) == CHOOSE k \in S : \A j \in S : j >= k

CloseAt(k, sym) == safeNumber(RowOf(dailyMaps[k], sym).CLOSE)

C6_CloseOrder ==
  pc \in {"fold", "done"} =>
    \A sym \in Symbols :
      LET S == FoldedIndexes(sym)
      IN IF S = {} THEN ~AggHas(agg, sym)
         ELSE /\ AggHas(agg, sym)
              /\ AggGet(agg, sym).firstClose = <<CloseAt(OldestIndex(S), sym)>>
              /\ AggGet(agg, sym).lastClose = <<CloseAt(NewestIndex(S), sym)>>

C6_FetchOrder ==
  (pc = "locate" /\ pc' = "locate") =>
     /\ cursor' = cursor - 1
     /\ \/ dailyMaps' = dailyMaps
        \/ /\ Len(dailyMaps') = Sessions + 1
           /\ SubSeq(dailyMaps', 1, Sessions) = dailyMaps

C6_FirstCloseOnce ==
  \A sym \in Symbols :
    (AggHas(agg, sym) /\ pc' # "locate") =>
       /\ AggHas(agg', sym)
       /\ AggGet(agg', sym).firstClose = AggGet(agg, sym).firstClose

C6_ChronologicalFold ==
  /\ []C6_CloseOrder
  /\ [][C6_FetchOrder]_vars
  /\ [][C6_FirstCloseOnce]_vars

C6_Witness ==
  /\ pc = "done"
  /\ AggHas(agg, "A")
  /\ AggGet(agg, "A").days >= 3
  /\ AggGet(agg, "A").firstClose = <<1>>
  /\ AggGet(agg, "A").lastClose = <<2>>

(***************************************************************************)
(* C7: for every symbol in topStocks priceChange5dPercent is 0 when a      *)
(* close was never set or firstClose <= 0, and otherwise it is             *)
(* (lastClose - firstClose) / firstClose * 100, also when lastClose is 0.  *)
(***************************************************************************)
C7_PriceChange ==
  response.kind = "ok" =>
    \A k \in 1..Len(response.topStocks) :
      LET x == response.topStocks[k]
          a == AggGet(agg, x.symbol)
          p == x.priceChange5dPercent
      IN IF a.firstClose = <<>> \/ a.lastClose = <<>> \/ a.firstClose[1] <= 0
           THEN p.num = 0
           ELSE p.num * a.firstClose[1] = (a.lastClose[1] - a.firstClose[1]) * 100 * p.den

(***************************************************************************)
(* C8: a failure on one candidate date (network error, non-success status, *)
(* archive without member, unparsable CSV, no EQ row) leaves the collected *)
(* sessions unchanged and the run in the locator loop, one day further     *)
(* back; no run answers with the 'unexpected error' response, the only     *)
(* error a run returns being the exhaustion one.                           *)
(***************************************************************************)
C8_FailureStep ==
  (pc = "locate" /\ lastOutcome' \in FetchFailures) =>
     /\ dailyMaps' = dailyMaps
     /\ pc' = "locate"
     /\ response' = response
     /\ cursor' = cursor - 1

C8_FailuresSwallowed ==
  /\ [][C8_FailureStep]_vars
  /\ [](response.kind \in {"none", "ok", "noSessions"})
  /\ [](response.kind = "noSessions" => Sessions = 0)

C8_Witness ==
  /\ pc = "locate"
  /\ lastOutcome = "emptyZip"
  /\ Sessions = 2
  /\ LoopGuard

(***************************************************************************)
(* C9 as claimed: no fold step lowers a symbol's sumVolume or              *)
(* sumTradedValue, whatever the traded-value field of the row.             *)
(***************************************************************************)
C9_Step ==
  \A sym \in Symbols :
    /\ VolumeOf(agg', sym) >= VolumeOf(agg, sym)
    /\ TradedValueOf(agg', sym) >= TradedValueOf(agg, sym)

C9_TotalsMonotone == [][C9_Step]_vars

(***************************************************************************)
(* C9 amended: every folded row raises its symbol's sumVolume, and         *)
(* sumTradedValue changes by the row's traded value as safeNumber reads    *)
(* it: it is lowered only by a row whose traded value is negative, which   *)
(* the row filter does not exclude.                                        *)
(***************************************************************************)
C9_AmendedStep ==
  pc = "fold" =>
    \A sym \in Symbols :
      /\ VolumeOf(agg', sym) >= VolumeOf(agg, sym)
      /\ DaysOf(agg', sym) > DaysOf(agg, sym) => VolumeOf(agg', sym) > VolumeOf(agg, sym)
      /\ TradedValueOf(agg', sym) < TradedValueOf(agg, sym) =>
           /\ i < Sessions
           /\ RowFolded(chronological[i + 1], sym)
           /\ safeNumber(RowOf(chronological[i + 1], sym).TOTTRDVAL) < 0

C9_VolumeMonotone == [][C9_AmendedStep]_vars

C9_Witness ==
  /\ pc = "fold"
  /\ i >= 2
  /\ TradedValueOf(agg, "A") < 0
  /\ VolumeOf(agg, "A") >= 2

(***************************************************************************)
(* C10: the locator loop terminates: every iteration moves the cursor one  *)
(* day back, so the days walked grow with every iteration; the loop is     *)
(* left once 5 sessions are collected or the ceiling of 17 is exceeded, so *)
(* at most 18 dates are examined and never more than 5 sessions collected. *)
(***************************************************************************)
C10_IterationStep ==
  pc = "locate" =>
    /\ pc' = "locate" => cursor' = cursor - 1
    /\ (Sessions >= neededDays \/ Sessions + Walked > Ceiling) => pc' # "locate"

C10_LocatorTerminates ==
  /\ [][C10_IterationStep]_vars
  /\ [](Walked <= Ceiling + 1 /\ Sessions <= neededDays)
  /\ [](pc = "locate" => (LoopGuard \/ ENABLED LoopExit))

C10_Witness ==
  /\ pc = "fold"
  /\ Sessions = 4
  /\ Walked = 14
====
